---- MODULE Spec2Model ----
(***************************************************************************)
(* Model of the thought_police trace recorder.                             *)
(*                                                                         *)
(*  - the trace graph store of the backend (models.py, schema.py) and the  *)
(*    MCP logging tools with their module-level pointer (mcp_server.py);   *)
(*  - the in-memory ChainDocumenter (chain_documentation.py);              *)
(*  - the IncrementalTextAnalyzer and its synchronous wrapper              *)
(*    (text_analyzer.py).                                                  *)
(*                                                                         *)
(* Python's None is modelled by the integer None (-1); database ids start  *)
(* at 1; the documenter's synthetic root node has id ROOT (0) and the      *)
(* nodes it creates are numbered like the code's "node_<k>".               *)
(***************************************************************************)
EXTENDS Integers, Sequences, FiniteSets, TLC

\* ------------------------------------------------------------------ bounds
MaxNodes == 2        \* rows the nodes table may ever receive
MaxTraces == 2       \* rows the traces table may ever receive
MaxDocNodes == 5     \* nodes a ChainDocumenter may create
MaxParsedNodes == 3  \* nodes analyze_text may create from one text
MaxViewN == 5        \* largest n passed to view_last_n_nodes
MaxText == 3         \* characters passed to one analyzer between resets
MaxParagraphs == 4   \* paragraphs of a text passed to analyze_text

None == -1
ROOT == 0

VARIABLES
    program,           \* which program of the repository this run is
    \* --- backend store and MCP server globals
    traces,            \* ids of the rows of table "traces"
    nodes,             \* table "nodes": id -> [parent_id, trace_id]
    next_trace_id,     \* next autoincrement primary key of "traces"
    next_node_id,      \* next autoincrement primary key of "nodes"
    fk_enforced,       \* whether the database engine enforces foreign keys
    current_trace_id,  \* mcp_server.current_trace_id
    last_node_id,      \* mcp_server.last_node_id
    last_store_op,     \* outcome of the latest store operation
    tool_calls,        \* per client of the MCP server: its tool call in flight
    created_for,       \* per node created by a tool call: the client it was for
    \* --- ChainDocumenter
    node_count,        \* ChainDocumenter.node_count
    parent,            \* Node.parent, per documenter node
    children,          \* Node.children, per documenter node
    content,           \* Node.content, per documenter node
    current_node,      \* ChainDocumenter.current_node
    last_doc_op,       \* outcome of the latest documenter operation
    analysis,          \* the analyze_text call: its text, position and actions
    \* --- IncrementalTextAnalyzer
    text_buffer,       \* IncrementalTextAnalyzer.text_buffer
    processed_text,    \* IncrementalTextAnalyzer.processed_text
    initialized,       \* IncrementalTextAnalyzer.initialized
    last_function_calls, \* IncrementalTextAnalyzer.last_function_calls
    pc,                \* position of the in-flight add_text_chunk
    contents,          \* the contents of the latest oracle request
    fed,               \* chunks passed to add_text_chunk since creation/reset
    last_call,         \* outcome of the latest analyzer operation
    tasks,             \* per concurrent add_text_chunk task: its position
    successful         \* the new text of every oracle call that succeeded

sessionVars == <<tool_calls, created_for>>
storeVars == <<traces, nodes, next_trace_id, next_node_id, fk_enforced,
               current_trace_id, last_node_id, last_store_op, sessionVars>>
docVars == <<node_count, parent, children, content, current_node,
             last_doc_op, analysis>>
overlapVars == <<tasks, successful>>
analyzerVars == <<text_buffer, processed_text, initialized,
                  last_function_calls, pc, contents, fed, last_call,
                  overlapVars>>
vars == <<program, storeVars, docVars, analyzerVars>>

\* The programs of the repository: the backend server (GraphQL store and MCP
\* tools), the chain_documentation script, a text analyzer session, and an
\* AgentLoopController session next to the MCP tools; the
\* chain_documentation script either drives a ChainDocumenter call by call
\* ("documenter") or lets analyze_text build it from a text ("parser");
\* "clients" is the MCP server with two clients connected to it; "overlap"
\* is one analyzer with two add_text_chunk tasks in one event loop; "text"
\* is parse_text_to_chain run on a text; "recycled" is the backend on a
\* database engine that gives the ids of deleted rows to new rows, run
\* through the MCP tools and the trace mutations.
Programs ==
    {"backend", "documenter", "analyzer", "controller", "parser", "clients",
     "overlap", "text", "recycled"}

\* The programs that hold a ChainDocumenter.
DocPrograms == {"documenter", "parser"}

\* The programs in which the MCP tools of mcp_server run.
McpPrograms == {"backend", "controller", "recycled"}

\* The programs in which the trace mutations of the GraphQL schema run.
TracePrograms == {"backend", "recycled"}

\* Whether the database engine hands out the ids of deleted rows again.
IdsReused == program = "recycled"

\* ======================================================================
\* Function calls handed to the MCP tools
\* ======================================================================
\* A function call as the oracle returns it: its name, the keys of its
\* "args" dictionary, and the number carried by node_id or num_steps (None
\* when the call carries neither).
Call(name, args, value) == [name |-> name, args |-> args, value |-> value]

\* The names bound at module level by mcp_server.py: its imports, its
\* globals and its functions.
McpServerNames ==
    {"FastMCP", "Starlette", "SseServerTransport", "Request", "Mount",
     "Route", "Server", "uvicorn", "json", "Session", "Node", "NodeType",
     "Trace", "get_db", "asyncio", "publish_node", "NodeSchema", "mcp",
     "current_trace_id", "last_node_id", "get_or_create_trace", "log_step",
     "mark_decision", "log_tool_call", "create_starlette_app",
     "get_mcp_app"}

\* The names execute_mcp_calls and _execute_mcp_call import from mcp_server.
ImportedNames ==
    {"log_step", "mark_decision", "log_tool_call", "get_previous_steps",
     "set_current_node", "go_back_steps"}

\* "from mcp_server import (...)" raises ImportError unless every name is
\* bound by the module.
ImportSucceeds == ImportedNames \subseteq McpServerNames

\* The keys the dispatch asks for before it calls the tool of that name;
\* get_previous_steps and go_back_steps read num_steps with a default.
RequiredArgs ==
    [log_step |-> {"step_name", "description"},
     mark_decision |-> {"decision_point", "options", "chosen_option",
                        "reasoning"},
     log_tool_call |-> {"tool_name", "arguments", "result"},
     get_previous_steps |-> {},
     set_current_node |-> {"node_id"},
     go_back_steps |-> {}]

\* The defaults of num_steps: args.get("num_steps", 5) and
\* args.get("num_steps", 1).
DefaultNumSteps == [get_previous_steps |-> 5, go_back_steps |-> 1]

\* Function calls used below: the three append tools with all their
\* arguments, a log_step without its description, a name no dispatch branch
\* knows, and go_back_steps and get_previous_steps without arguments.
LogStepCall == Call("log_step", RequiredArgs["log_step"], None)

MarkDecisionCall == Call("mark_decision", RequiredArgs["mark_decision"], None)

LogToolCallCall == Call("log_tool_call", RequiredArgs["log_tool_call"], None)

LogStepNoDescription == Call("log_step", {"step_name"}, None)

UnknownCall == Call("summarize", {"text"}, None)

GoBackNoArgs == Call("go_back_steps", {}, None)

GetPreviousNoArgs == Call("get_previous_steps", {}, None)

\* ======================================================================
\* Backend store
\* ======================================================================

\* An entity of the store, as it is handed to the subscriptions.
Entity(kind, id) == [kind |-> kind, id |-> id]

\* publish_trace and publish_node put their argument on the subscribers'
\* queues: the sequence of entities a call publishes.
publish_trace(trace) == <<Entity("trace", trace)>>

publish_node(node) == <<Entity("node", node)>>

\* The foreign keys of table "nodes", checked at the end of the INSERT (so a
\* row may reference itself): parent_id -> nodes.id, trace_id -> traces.id.
ForeignKeysHold(id, row, table, trs) ==
    /\ row.trace_id \in trs
    /\ row.parent_id # None => row.parent_id \in (DOMAIN table) \cup {id}

\* db.add(node); db.commit(): the row is stored unless an enforced foreign
\* key rejects it.  The code itself checks nothing.
CommitAccepts(id, row, table, trs) ==
    fk_enforced => ForeignKeysHold(id, row, table, trs)

\* A variant that writes the new row over every row of the table.
InsertOverAll(table, id, row) ==
    [n \in (DOMAIN table) \cup {id} |-> row]

Insert(table, id, row) ==
    [n \in (DOMAIN table) \cup {id} |-> IF n = id THEN row ELSE table[n]]

\* get_or_create_trace: reuse the trace named by current_trace_id when that
\* row still exists, otherwise insert a new trace, remember it and reset
\* last_node_id.
ReusesTrace == current_trace_id # None /\ current_trace_id \in traces

get_or_create_trace ==
    IF ReusesTrace
    THEN [trace |-> current_trace_id, traces |-> traces,
          current_trace_id |-> current_trace_id,
          last_node_id |-> last_node_id, next_trace_id |-> next_trace_id,
          created |-> {}, published |-> <<>>]
    ELSE [trace |-> next_trace_id, traces |-> traces \cup {next_trace_id},
          current_trace_id |-> next_trace_id,
          last_node_id |-> None, next_trace_id |-> next_trace_id + 1,
          created |-> {Entity("trace", next_trace_id)}, published |-> <<>>]

\* A variant that reads last_node_id before get_or_create_trace resets it.
AppendParentStale(t) == last_node_id

\* The parent_id log_step, mark_decision and log_tool_call give the new row:
\* last_node_id as it is after get_or_create_trace.
AppendParent(t) == t.last_node_id

\* A variant that gives every row the columns of a log_step row.
NodeColumnsAllLogging(op) ==
    [type |-> "LOGGING", log_level |-> "INFO", decision_outcome |-> "NULL",
     tool_name |-> "NULL"]

\* The columns, besides parent_id and trace_id, that each tool passes to
\* Node(...): the type, and the argument stored as decision_outcome or as
\* tool_name ("NULL" for a column the tool leaves unset).
NodeColumns(op) ==
    CASE op = "log_step" ->
            [type |-> "LOGGING", log_level |-> "INFO",
             decision_outcome |-> "NULL", tool_name |-> "NULL"]
      [] op = "mark_decision" ->
            [type |-> "DECISION", log_level |-> "NULL",
             decision_outcome |-> "chosen_option", tool_name |-> "NULL"]
      [] op = "log_tool_call" ->
            [type |-> "TOOL_CALL", log_level |-> "NULL",
             decision_outcome |-> "NULL", tool_name |-> "tool_name"]

\* Common body of log_step, mark_decision and log_tool_call.
AppendNode(op) ==
    LET t == get_or_create_trace
        row == [parent_id |-> AppendParent(t), trace_id |-> t.trace]
    IN  /\ program \in McpPrograms
        /\ ReusesTrace \/ next_trace_id <= MaxTraces
        /\ next_node_id <= MaxNodes
        /\ traces' = t.traces
        /\ next_trace_id' = t.next_trace_id
        /\ current_trace_id' = t.current_trace_id
        /\ IF CommitAccepts(next_node_id, row, nodes, t.traces)
           THEN /\ nodes' = Insert(nodes, next_node_id, row)
                /\ next_node_id' = next_node_id + 1
                /\ last_node_id' = next_node_id
                /\ last_store_op' =
                      [op |-> op, ok |-> TRUE, id |-> next_node_id,
                       columns |-> NodeColumns(op),
                       created |-> t.created \cup
                                      {Entity("node", next_node_id)},
                       published |-> t.published \o
                                        publish_node(next_node_id)]
           ELSE /\ UNCHANGED <<nodes, next_node_id>>
                /\ last_node_id' = t.last_node_id
                /\ last_store_op' = [op |-> op, ok |-> FALSE, id |-> None,
                                     created |-> t.created,
                                     published |-> t.published]
        /\ UNCHANGED <<program, fk_enforced, sessionVars, docVars, analyzerVars>>

log_step == AppendNode("log_step")

mark_decision == AppendNode("mark_decision")

log_tool_call == AppendNode("log_tool_call")

\* Mutation.create_trace
create_trace ==
    /\ program \in TracePrograms
    /\ next_trace_id <= MaxTraces
    /\ traces' = traces \cup {next_trace_id}
    /\ next_trace_id' = next_trace_id + 1
    /\ last_store_op' = [op |-> "create_trace", ok |-> TRUE,
                         id |-> next_trace_id,
                         created |-> {Entity("trace", next_trace_id)},
                         published |-> publish_trace(next_trace_id)]
    /\ UNCHANGED <<program, nodes, next_node_id, fk_enforced, sessionVars,
                   current_trace_id, last_node_id, docVars, analyzerVars>>

\* Mutation.create_node: the input's trace_id and parent_id are stored as
\* given.
create_node(trace_id, parent_id) ==
    LET row == [parent_id |-> parent_id, trace_id |-> trace_id]
    IN  /\ program = "backend"
        /\ next_node_id <= MaxNodes
        /\ IF CommitAccepts(next_node_id, row, nodes, traces)
           THEN /\ nodes' = Insert(nodes, next_node_id, row)
                /\ next_node_id' = next_node_id + 1
                /\ last_store_op' =
                      [op |-> "create_node", ok |-> TRUE,
                       id |-> next_node_id,
                       created |-> {Entity("node", next_node_id)},
                       published |-> publish_node(next_node_id)]
           ELSE /\ UNCHANGED <<nodes, next_node_id>>
                /\ last_store_op' = [op |-> "create_node", ok |-> FALSE,
                                     id |-> None, created |-> {},
                                     published |-> <<>>]
        /\ UNCHANGED <<program, traces, next_trace_id, fk_enforced, sessionVars,
                       current_trace_id, last_node_id, docVars,
                       analyzerVars>>

\* Mutation.delete_trace: False when the trace is absent; otherwise the rows
\* of the trace and the trace are deleted.  An enforced foreign key rejects
\* the delete when a surviving row still references a deleted one.
Survivors(id) == {n \in DOMAIN nodes : nodes[n].trace_id # id}

DeleteAccepts(id) ==
    fk_enforced =>
        \A n \in Survivors(id) :
            nodes[n].parent_id # None => nodes[n].parent_id \in Survivors(id)

\* The primary key the engine gives the next row of a table: "id =
\* Column(Integer, primary_key=True)" is a serial that never goes back on
\* one engine and the largest id in the table plus one on another.
NextId(ids, serial) ==
    IF IdsReused
    THEN 1 + (CHOOSE m \in ids \cup {0} : \A i \in ids : i <= m)
    ELSE serial

delete_trace(id) ==
    /\ program \in TracePrograms
    /\ IF id \notin traces
       THEN /\ UNCHANGED <<traces, nodes, next_trace_id, next_node_id>>
            /\ last_store_op' = [op |-> "delete_trace", ok |-> FALSE,
                                 id |-> id]
       ELSE IF DeleteAccepts(id)
       THEN /\ nodes' = [n \in Survivors(id) |-> nodes[n]]
            /\ traces' = traces \ {id}
            /\ next_trace_id' = NextId(traces', next_trace_id)
            /\ next_node_id' = NextId(DOMAIN nodes', next_node_id)
            /\ last_store_op' = [op |-> "delete_trace", ok |-> TRUE,
                                 id |-> id]
       ELSE /\ UNCHANGED <<traces, nodes, next_trace_id, next_node_id>>
            /\ last_store_op' = [op |-> "delete_trace_raised", ok |-> FALSE,
                                 id |-> id]
    /\ UNCHANGED <<program, fk_enforced, sessionVars,
                   current_trace_id, last_node_id, docVars, analyzerVars>>

\* ----------------------------------------------------------------------
\* Two clients of the MCP server
\* ----------------------------------------------------------------------
\* The clients connected to /sse, each in a session of its own.
Sessions == {"a", "b"}

ToolNames == {"log_step", "mark_decision", "log_tool_call"}

NoRow == [parent_id |-> None, trace_id |-> None]

\* No tool call of the client is in flight.
NoCall == [pc |-> "idle", op |-> "none", row |-> NoRow]

\* A client posts a tools/call message; the server has not run it yet.
call_tool(session, op) ==
    /\ program = "clients"
    /\ tool_calls[session].pc = "idle"
    /\ tool_calls' = [tool_calls EXCEPT ![session] =
                         [pc |-> "called", op |-> op, row |-> NoRow]]
    /\ UNCHANGED <<program, traces, nodes, next_trace_id, next_node_id,
                   fk_enforced, current_trace_id, last_node_id,
                   last_store_op, created_for, docVars, analyzerVars>>

\* A variant in which tool functions run in threads of their own: one may
\* start while another is between its read and its write.
MayRunInThreads(session) == TRUE

\* The tools are plain "def" functions without an await, run by the one
\* event loop of uvicorn: a tool function starts only when no other is
\* running, and runs to its return.
MayRun(session) ==
    \A other \in Sessions \ {session} : tool_calls[other].pc # "running"

\* First half of a tool function: get_or_create_trace, then Node(...,
\* trace_id=trace.id, parent_id=last_node_id).
begin_tool(session) ==
    LET t == get_or_create_trace
    IN  /\ program = "clients"
        /\ tool_calls[session].pc = "called"
        /\ MayRun(session)
        /\ ReusesTrace \/ next_trace_id <= MaxTraces
        /\ next_node_id <= MaxNodes
        /\ traces' = t.traces
        /\ next_trace_id' = t.next_trace_id
        /\ current_trace_id' = t.current_trace_id
        /\ last_node_id' = t.last_node_id
        /\ tool_calls' =
              [tool_calls EXCEPT ![session] =
                  [pc |-> "running", op |-> tool_calls[session].op,
                   row |-> [parent_id |-> AppendParent(t),
                            trace_id |-> t.trace]]]
        /\ UNCHANGED <<program, nodes, next_node_id, fk_enforced,
                       last_store_op, created_for, docVars, analyzerVars>>

\* Second half: db.add(node); db.commit(); last_node_id = node.id; the node
\* is published; return True.  A commit that raises ends the call.
end_tool(session) ==
    LET op == tool_calls[session].op
        row == tool_calls[session].row
        waiting == {other \in Sessions : tool_calls[other].pc = "called"}
    IN  /\ program = "clients"
        /\ tool_calls[session].pc = "running"
        /\ IF CommitAccepts(next_node_id, row, nodes, traces)
           THEN /\ nodes' = Insert(nodes, next_node_id, row)
                /\ next_node_id' = next_node_id + 1
                /\ last_node_id' = next_node_id
                /\ created_for' = Insert(created_for, next_node_id, session)
                /\ last_store_op' =
                      [op |-> op, ok |-> TRUE, id |-> next_node_id,
                       columns |-> NodeColumns(op),
                       created |-> {Entity("node", next_node_id)},
                       published |-> publish_node(next_node_id),
                       waiting |-> waiting]
           ELSE /\ UNCHANGED <<nodes, next_node_id, last_node_id,
                               created_for>>
                /\ last_store_op' = [op |-> op, ok |-> FALSE, id |-> None,
                                     created |-> {}, published |-> <<>>,
                                     waiting |-> waiting]
        /\ tool_calls' = [tool_calls EXCEPT ![session] = NoCall]
        /\ UNCHANGED <<program, traces, next_trace_id, fk_enforced,
                       current_trace_id, docVars, analyzerVars>>

\* AgentLoopController.reset: reloading mcp_server resets its globals, then a
\* new trace row is inserted without being remembered.
controller_reset ==
    /\ program \in McpPrograms
    /\ next_trace_id <= MaxTraces
    /\ current_trace_id' = None
    /\ last_node_id' = None
    /\ traces' = traces \cup {next_trace_id}
    /\ next_trace_id' = next_trace_id + 1
    /\ last_store_op' = [op |-> "reset", ok |-> TRUE, id |-> next_trace_id,
                         created |-> {Entity("trace", next_trace_id)},
                         published |-> <<>>]
    /\ UNCHANGED <<program, nodes, next_node_id, fk_enforced, sessionVars, docVars,
                   analyzerVars>>

\* The num_steps values a go_back_steps call may carry.
BackSteps == {0, 1, 3}

\* The single calls a caller may hand to AgentLoopController: go_back_steps
\* and get_previous_steps with and without num_steps, set_current_node with
\* a node id, and a log_step.
AgentCalls ==
    {GoBackNoArgs, GetPreviousNoArgs, LogStepCall}
    \cup {Call("go_back_steps", {"num_steps"}, k) : k \in BackSteps}
    \cup {Call("set_current_node", {"node_id"}, id) : id \in 1..MaxNodes}

\* What _execute_mcp_call returns.  The import of the six names is the
\* first statement of its try block; "except Exception" turns the
\* ImportError into {"error": ...} before any dispatch.
McpCallOutcome(function_call) ==
    IF ImportSucceeds THEN "dispatched" ELSE "error"

\* AgentLoopController._execute_mcp_call
_execute_mcp_call(function_call) ==
    /\ program = "controller"
    /\ McpCallOutcome(function_call) = "error"
    /\ last_store_op' = [op |-> "_execute_mcp_call", ok |-> FALSE,
                         id |-> None, call |-> function_call]
    /\ UNCHANGED <<program, traces, nodes, next_trace_id, next_node_id,
                   fk_enforced, sessionVars, current_trace_id, last_node_id, docVars,
                   analyzerVars>>

\* AgentLoopController.explore_alternative_path: the set_current_node call
\* goes through _execute_mcp_call, whose error is returned to the caller.
explore_alternative_path(node_id) ==
    LET function_call == Call("set_current_node", {"node_id"}, node_id)
    IN  /\ program = "controller"
        /\ McpCallOutcome(function_call) = "error"
        /\ last_store_op' = [op |-> "explore_alternative_path",
                             ok |-> FALSE, id |-> None,
                             call |-> function_call]
        /\ UNCHANGED <<program, traces, nodes, next_trace_id, next_node_id,
                       fk_enforced, sessionVars, current_trace_id, last_node_id, docVars,
                       analyzerVars>>

\* ======================================================================
\* ChainDocumenter (in-memory graph)
\* ======================================================================
DocNodes == 0..node_count

\* A text is the sequence of its characters.
Sp == <<" ">>

W_research == <<"r", "e", "s", "e", "a", "r", "c", "h">>

W_Research == <<"R", "e", "s", "e", "a", "r", "c", "h">>

W_paper == <<"p", "a", "p", "e", "r">>

W_approach == <<"a", "p", "p", "r", "o", "a", "c", "h">>

W_implement == <<"i", "m", "p", "l", "e", "m", "e", "n", "t">>

W_prototype == <<"p", "r", "o", "t", "o", "t", "y", "p", "e">>

W_analyze == <<"a", "n", "a", "l", "y", "z", "e">>

W_problem == <<"p", "r", "o", "b", "l", "e", "m">>

W_solution == <<"s", "o", "l", "u", "t", "i", "o", "n">>

W_test == <<"t", "e", "s", "t">>

W_optimize == <<"o", "p", "t", "i", "m", "i", "z", "e">>

W_phase == <<"p", "h", "a", "s", "e">>

W_notes == <<"n", "o", "t", "e", "s">>

\* Node("ROOT", node_id="root"): the content of the root node.
RootContent == <<"R", "O", "O", "T">>

\* The contents analyze_text may give a node: "Research phase notes",
\* "approach B implementation" and "research notes".
ResearchPhaseNotes == W_Research \o Sp \o W_phase \o Sp \o W_notes

ApproachBImplementation ==
    W_approach \o Sp \o <<"B">> \o Sp \o W_implement \o
    <<"a", "t", "i", "o", "n">>

ResearchNotes == W_research \o Sp \o W_notes

NodeContents == {ResearchPhaseNotes, ApproachBImplementation, ResearchNotes}

\* The content of the nodes a script creates call by call.
StepContent == <<"S", "t", "e", "p">>

\* The contents a create_node call may carry, and the number of nodes it
\* may create, in the program at hand.
ContentChoices == IF program = "parser" THEN NodeContents ELSE {StepContent}

NodeBound == IF program = "parser" THEN MaxParsedNodes ELSE MaxDocNodes

\* The target descriptions _extract_target_description may return:
\* "research phase", "research", "implement approach research", "test",
\* "" and "oo".
TargetDescriptions ==
    {W_research \o Sp \o W_phase,
     W_research,
     W_implement \o Sp \o W_approach \o Sp \o W_research,
     W_test,
     <<>>,
     <<"o", "o">>}

\* The descriptions resolved in the program at hand: a script that calls
\* the resolver on its own chain of "Step" nodes asks for "test" only.
DescriptionChoices ==
    IF program = "parser" THEN TargetDescriptions ELSE {W_test}

\* str.lower on the characters used here.
LowerChar(c) ==
    CASE c = "R" -> "r"
      [] c = "O" -> "o"
      [] c = "T" -> "t"
      [] c = "B" -> "b"
      [] c = "S" -> "s"
      [] OTHER -> c

lower(text) == [i \in DOMAIN text |-> LowerChar(text[i])]

\* Python's "needle in hay" on strings.
In(needle, hay) ==
    \E i \in 1..(Len(hay) - Len(needle) + 1) :
        SubSeq(hay, i, i + Len(needle) - 1) = needle

\* A variant that inserts the child at the front of the children list.
add_child_front(kids, node, child) ==
    [kids EXCEPT ![node] = <<child>> \o @]

\* A variant that sets the parent of the child only: the children list of
\* the node is left as it is.
add_child_parent_only(kids, node, child) == kids

\* Node.add_child: append the child to the children list of the node; the
\* child's parent becomes the node.
add_child(kids, node, child) ==
    [kids EXCEPT ![node] = Append(@, child)]

\* The node create_node attaches the new node to.
AttachPoint == current_node

\* ChainDocumenter.create_node: what it does to the documenter.
CreateNode(text) ==
    LET new_node == node_count + 1
        withNew == [n \in 0..new_node |->
                      IF n = new_node THEN <<>> ELSE children[n]]
    IN  /\ node_count' = new_node
        /\ children' = add_child(withNew, AttachPoint, new_node)
        /\ parent' = [n \in 0..new_node |->
                        IF n = new_node THEN AttachPoint ELSE parent[n]]
        /\ content' = [n \in 0..new_node |->
                         IF n = new_node THEN text ELSE content[n]]
        /\ current_node' = new_node
        /\ last_doc_op' = [op |-> "create_node", node |-> new_node,
                           result |-> <<>>]

\* A call of ChainDocumenter.create_node
doc_create_node(text) ==
    /\ program \in DocPrograms
    /\ node_count < NodeBound
    /\ text \in ContentChoices
    /\ CreateNode(text)
    /\ UNCHANGED <<program, storeVars, analyzerVars, analysis>>

\* ChainDocumenter.move_pointer
move_pointer(target_node) ==
    /\ program \in DocPrograms
    /\ current_node' = target_node
    /\ last_doc_op' = [op |-> "move_pointer", node |-> target_node,
                       result |-> <<>>]
    /\ UNCHANGED <<program, node_count, parent, children, content, storeVars,
                   analyzerVars, analysis>>

\* A variant that appends to the path instead of inserting at the front.
RECURSIVE ViewLoopAppend(_, _, _)
ViewLoopAppend(path, current, n) ==
    IF current # None /\ Len(path) < n
    THEN ViewLoopAppend(Append(path, current), parent[current], n)
    ELSE path

\* A variant whose loop runs while len(path) <= n.
RECURSIVE ViewLoopOneMore(_, _, _)
ViewLoopOneMore(path, current, n) ==
    IF current # None /\ Len(path) <= n
    THEN ViewLoopOneMore(<<current>> \o path, parent[current], n)
    ELSE path

\* The loop of view_last_n_nodes: while current and len(path) < n, insert
\* current at the front and step to its parent.
RECURSIVE ViewLoop(_, _, _)
ViewLoop(path, current, n) ==
    IF current # None /\ Len(path) < n
    THEN ViewLoop(<<current>> \o path, parent[current], n)
    ELSE path

view_last_n_nodes(n) == ViewLoop(<<>>, current_node, n)

\* The loop of get_full_path_to_current: no length limit.
RECURSIVE FullPathLoop(_, _)
FullPathLoop(path, current) ==
    IF current # None
    THEN FullPathLoop(<<current>> \o path, parent[current])
    ELSE path

get_full_path_to_current == FullPathLoop(<<>>, current_node)

\* A variant that walks with self.current_node itself and so leaves the
\* pointer on the first node of the returned path.
CurrentAfterViewWalked(n) ==
    IF view_last_n_nodes(n) = <<>> THEN current_node
    ELSE view_last_n_nodes(n)[1]

\* view_last_n_nodes walks with the local variable "current";
\* self.current_node is not assigned.
CurrentAfterView(n) == current_node

\* A caller reading the last n nodes.
call_view_last_n_nodes(n) ==
    /\ program = "documenter"
    /\ last_doc_op' = [op |-> "view_last_n_nodes", node |-> n,
                       result |-> view_last_n_nodes(n)]
    /\ current_node' = CurrentAfterView(n)
    /\ UNCHANGED <<program, node_count, parent, children, content, storeVars,
                   analyzerVars, analysis>>

\* A caller reading the full path.
call_get_full_path_to_current ==
    /\ program = "documenter"
    /\ last_doc_op' = [op |-> "get_full_path_to_current", node |-> None,
                       result |-> get_full_path_to_current]
    /\ UNCHANGED <<program, node_count, parent, children, content,
                   current_node,
                   storeVars, analyzerVars, analysis>>

\* A variant that puts the children of the visited node at the front of the
\* queue (depth-first order).
RECURSIVE GetAllNodesDepthFirst(_, _)
GetAllNodesDepthFirst(all_nodes, queue) ==
    IF queue = <<>> THEN all_nodes
    ELSE GetAllNodesDepthFirst(Append(all_nodes, Head(queue)),
                               children[Head(queue)] \o Tail(queue))

\* The loop of _get_all_nodes: current = queue.pop(0);
\* all_nodes.append(current); queue.extend(current.children).
RECURSIVE GetAllNodesLoop(_, _)
GetAllNodesLoop(all_nodes, queue) ==
    IF queue = <<>> THEN all_nodes
    ELSE GetAllNodesLoop(Append(all_nodes, Head(queue)),
                         Tail(queue) \o children[Head(queue)])

_get_all_nodes == GetAllNodesLoop(<<>>, <<ROOT>>)

\* The keywords of _find_best_matching_node, in the order of the list.
Keywords ==
    <<W_research, W_paper, W_approach, W_implement, W_prototype, W_analyze,
      W_problem, W_solution, W_test, W_optimize>>

\* The test of the first loop: target_desc.lower() in node.content.lower().
ContainsDescription(text, target_desc) == In(lower(target_desc), lower(text))

\* The inner loop over the keywords: one point per keyword found both in
\* the description and in the node's content.
KeywordScore(text, target_desc) ==
    Cardinality({k \in DOMAIN Keywords :
                    /\ In(Keywords[k], lower(target_desc))
                    /\ In(Keywords[k], lower(text))})

\* Both, tabulated over the contents and descriptions in use.
AllContents == NodeContents \cup {RootContent, StepContent}

ContainsTable ==
    [text \in AllContents, target_desc \in TargetDescriptions |->
        ContainsDescription(text, target_desc)]

ScoreTable ==
    [text \in AllContents, target_desc \in TargetDescriptions |->
        KeywordScore(text, target_desc)]

\* A variant without the first loop: no node is returned for containing the
\* description.
ExactPassSkipped(all_nodes, target_desc) == <<>>

\* The first loop of _find_best_matching_node returns the first node of
\* all_nodes with target_desc.lower() in node.content.lower(); this is the
\* sequence of the nodes that pass the test, in the order of all_nodes.
ExactPass(all_nodes, target_desc) ==
    LET Hit(node) == ContainsTable[content[node], target_desc]
    IN  SelectSeq(all_nodes, Hit)

\* The score of a node in the second loop.
Score(node, target_desc) == ScoreTable[content[node], target_desc]

\* A variant of the second loop in which a node also replaces the best
\* match with an equal score: the last of the best nodes wins.
RECURSIVE BestLoopLastWins(_, _, _, _)
BestLoopLastWins(all_nodes, target_desc, best_match, best_score) ==
    IF all_nodes = <<>>
    THEN [best_match |-> best_match, best_score |-> best_score]
    ELSE LET node == Head(all_nodes)
             score == Score(node, target_desc)
         IN  IF score >= best_score
             THEN BestLoopLastWins(Tail(all_nodes), target_desc, node, score)
             ELSE BestLoopLastWins(Tail(all_nodes), target_desc, best_match,
                                   best_score)

\* The second loop: a node replaces the best match only with a strictly
\* higher score.
RECURSIVE BestLoop(_, _, _, _)
BestLoop(all_nodes, target_desc, best_match, best_score) ==
    IF all_nodes = <<>>
    THEN [best_match |-> best_match, best_score |-> best_score]
    ELSE LET node == Head(all_nodes)
             score == Score(node, target_desc)
         IN  IF score > best_score
             THEN BestLoop(Tail(all_nodes), target_desc, node, score)
             ELSE BestLoop(Tail(all_nodes), target_desc, best_match,
                           best_score)

\* A variant of the last resort that goes two steps back on a long path.
PositionalFallbackTwoBack ==
    LET path == get_full_path_to_current
    IN  IF Len(path) >= 4 THEN path[Len(path) - 2]
        ELSE IF Len(path) >= 2 THEN path[2]
        ELSE ROOT

\* A variant of the last resort that returns the root on every short path.
PositionalFallbackRootWhenShort ==
    LET path == get_full_path_to_current
    IN  IF Len(path) >= 4 THEN path[Len(path) - 3]
        ELSE ROOT

\* The last resort: path[-4] when the path to the current node has at
\* least four entries, path[1] when it has at least two, else the root.
PositionalFallback ==
    LET path == get_full_path_to_current
    IN  IF Len(path) >= 4 THEN path[Len(path) - 3]
        ELSE IF Len(path) >= 2 THEN path[2]
        ELSE ROOT

\* A variant without the last resort: None when no node contains the
\* description or shares a keyword with it.
FindOrNone(target_desc) ==
    LET all_nodes == _get_all_nodes
        exact == ExactPass(all_nodes, target_desc)
        best == BestLoop(all_nodes, target_desc, None, 0)
    IN  IF exact # <<>> THEN Head(exact) ELSE best.best_match

\* ChainDocumenter._find_best_matching_node
_find_best_matching_node(target_desc) ==
    LET all_nodes == _get_all_nodes
        exact == ExactPass(all_nodes, target_desc)
        best == BestLoop(all_nodes, target_desc, None, 0)
    IN  IF exact # <<>> THEN Head(exact)
        ELSE IF best.best_score > 0 THEN best.best_match
        ELSE PositionalFallback

\* analyze_text at a branch point: the description extracted from the
\* paragraph is resolved and the pointer is moved to the node found (a Node
\* is always true in "if target_node"); the node that was current when the
\* resolver was called is kept in the record of the operation.
branch_point(target_desc) ==
    /\ program \in DocPrograms
    /\ target_desc \in DescriptionChoices
    /\ LET target_node == _find_best_matching_node(target_desc)
       IN  /\ current_node' = target_node
           /\ last_doc_op' = [op |-> "branch_point", node |-> target_node,
                              result |-> target_desc, from |-> current_node]
    /\ UNCHANGED <<program, node_count, parent, children, content, storeVars,
                   analyzerVars, analysis>>

\* ----------------------------------------------------------------------
\* parse_text_to_chain: analyze_text on a fresh documenter
\* ----------------------------------------------------------------------
\* A paragraph of a text: whether it holds "BRANCH POINT:" or "goes back
\* to", and either the text create_node is given or the description
\* _extract_target_description returns.
Paragraph(branch, text) == [branch |-> branch, text |-> text]

\* A paragraph that is empty once stripped.
Blank == Paragraph(FALSE, <<>>)

ParagraphChoices ==
    {Paragraph(FALSE, text) :
        text \in {ResearchPhaseNotes, ApproachBImplementation}} \cup
    {Paragraph(TRUE, target_desc) :
        target_desc \in {W_research \o Sp \o W_phase, <<"o", "o">>}} \cup
    {Blank}

RECURSIVE TextsOfLength(_)
TextsOfLength(n) ==
    IF n = 0 THEN {<<>>}
    ELSE {Append(text, paragraph) :
             text \in TextsOfLength(n - 1), paragraph \in ParagraphChoices}

Texts == UNION {TextsOfLength(n) : n \in 0..MaxParagraphs}

\* "paragraphs = [p.strip() for p in text.split("\n\n") if p.strip()]"
Stripped(paragraph) == paragraph # Blank

SplitParagraphs(text) == SelectSeq(text, Stripped)

\* The test both passes make of a paragraph.
IsBranchPoint(paragraph) == paragraph.branch

\* A loop over the paragraphs from i on is left: the text has ended, or the
\* paragraph is a branch point ("break").
LoopEnds(paragraphs, i) ==
    IF i > Len(paragraphs) THEN TRUE ELSE IsBranchPoint(paragraphs[i])

\* The index of the first branch point at or after i, or one past the end.
RECURSIVE BranchFrom(_, _)
BranchFrom(paragraphs, i) ==
    IF i > Len(paragraphs) \/ IsBranchPoint(paragraphs[i]) THEN i
    ELSE BranchFrom(paragraphs, i + 1)

\* analyze_text has not been called.
NotCalled ==
    [pc |-> "idle", text |-> <<>>, paragraphs |-> <<>>, idx |-> 0,
     para_idx |-> 0, all_executed_actions |-> <<>>]

\* An entry of all_executed_actions, with the paragraph it was made for.
Executed(name, node_id, para) ==
    [name |-> name, node_id |-> node_id, para |-> para]

\* A variant of the loop after a branch point that starts at the branch
\* point itself.
AfterBranchStartsAtBranch(para_idx) == para_idx

\* "next_branch_idx = para_idx + 1"
AfterBranchStart(para_idx) == para_idx + 1

\* parse_text_to_chain calls analyze_text on a new ChainDocumenter: the text
\* is split into its paragraphs and the first pass begins.
analyze_text ==
    /\ program = "text"
    /\ analysis.pc = "idle"
    /\ \E text \in Texts :
          analysis' = [pc |-> "first_pass", text |-> text,
                       paragraphs |-> SplitParagraphs(text), idx |-> 1,
                       para_idx |-> 0, all_executed_actions |-> <<>>]
    /\ UNCHANGED <<program, storeVars, analyzerVars, node_count, parent,
                   children, content, current_node, last_doc_op>>

\* First pass, a paragraph before the first branch point: a node is created.
first_pass_create ==
    /\ program = "text"
    /\ analysis.pc = "first_pass"
    /\ analysis.idx <= Len(analysis.paragraphs)
    /\ ~IsBranchPoint(analysis.paragraphs[analysis.idx])
    /\ CreateNode(analysis.paragraphs[analysis.idx].text)
    /\ analysis' = [analysis EXCEPT
           !.idx = @ + 1,
           !.all_executed_actions =
               Append(@, Executed("create_node", node_count + 1,
                                  analysis.idx))]
    /\ UNCHANGED <<program, storeVars, analyzerVars>>

\* First pass, the first branch point or the end of the text: the loop is
\* left and the second pass goes to the first branch point.
first_pass_end ==
    /\ program = "text"
    /\ analysis.pc = "first_pass"
    /\ LoopEnds(analysis.paragraphs, analysis.idx)
    /\ analysis' = [analysis EXCEPT
           !.pc = "second_pass",
           !.idx = BranchFrom(analysis.paragraphs, 1)]
    /\ UNCHANGED <<program, storeVars, analyzerVars, node_count, parent,
                   children, content, current_node, last_doc_op>>

\* Second pass, a branch point: the description is resolved; with a node
\* found the pointer is moved to it and the paragraphs after the branch
\* point are gone through, otherwise the next branch point is taken.
second_pass_branch ==
    /\ program = "text"
    /\ analysis.pc = "second_pass"
    /\ analysis.idx <= Len(analysis.paragraphs)
    /\ LET target_desc == analysis.paragraphs[analysis.idx].text
           target_node == _find_best_matching_node(target_desc)
       IN  IF target_node # None
           THEN /\ current_node' = target_node
                /\ last_doc_op' = [op |-> "branch_point",
                                   node |-> target_node,
                                   result |-> target_desc,
                                   from |-> current_node]
                /\ analysis' = [analysis EXCEPT
                       !.pc = "after_branch",
                       !.para_idx = analysis.idx,
                       !.idx = AfterBranchStart(analysis.idx),
                       !.all_executed_actions =
                           Append(@, Executed("move_pointer_to_node",
                                              target_node, analysis.idx))]
           ELSE /\ analysis' = [analysis EXCEPT
                       !.idx = BranchFrom(analysis.paragraphs,
                                          analysis.idx + 1)]
                /\ UNCHANGED <<current_node, last_doc_op>>
    /\ UNCHANGED <<program, storeVars, analyzerVars, node_count, parent,
                   children, content>>

\* Second pass, a paragraph after a branch point: a node is created.
after_branch_create ==
    /\ program = "text"
    /\ analysis.pc = "after_branch"
    /\ analysis.idx <= Len(analysis.paragraphs)
    /\ ~IsBranchPoint(analysis.paragraphs[analysis.idx])
    /\ CreateNode(analysis.paragraphs[analysis.idx].text)
    /\ analysis' = [analysis EXCEPT
           !.idx = @ + 1,
           !.all_executed_actions =
               Append(@, Executed("create_node", node_count + 1,
                                  analysis.idx))]
    /\ UNCHANGED <<program, storeVars, analyzerVars>>

\* Second pass, the next branch point or the end of the text: the inner loop
\* is left and the next branch point is taken.
after_branch_end ==
    /\ program = "text"
    /\ analysis.pc = "after_branch"
    /\ LoopEnds(analysis.paragraphs, analysis.idx)
    /\ analysis' = [analysis EXCEPT
           !.pc = "second_pass",
           !.idx = BranchFrom(analysis.paragraphs, analysis.para_idx + 1)]
    /\ UNCHANGED <<program, storeVars, analyzerVars, node_count, parent,
                   children, content, current_node, last_doc_op>>

\* No branch point is left: analyze_text returns all_executed_actions.
analyze_text_return ==
    /\ program = "text"
    /\ analysis.pc = "second_pass"
    /\ analysis.idx > Len(analysis.paragraphs)
    /\ analysis' = [analysis EXCEPT !.pc = "done"]
    /\ last_doc_op' = [op |-> "analyze_text", node |-> current_node,
                       result |-> analysis.all_executed_actions]
    /\ UNCHANGED <<program, storeVars, analyzerVars, node_count, parent,
                   children, content, current_node>>

\* ======================================================================
\* IncrementalTextAnalyzer and SyncIncrementalTextAnalyzer
\* ======================================================================
\* Text is a sequence of characters; the chunks a caller may pass.
Chunks == {<<>>, <<"a">>, <<"b">>, <<"a", "b">>}

\* The action lists the oracle may answer with.
Batches ==
    {<<>>,
     <<LogStepCall>>,
     <<LogStepCall, LogStepNoDescription, MarkDecisionCall>>,
     <<UnknownCall, LogToolCallCall>>}

IsPrefix(s, t) == Len(s) <= Len(t) /\ SubSeq(t, 1, Len(s)) = s

\* _process_current_buffer, the request: the buffer alone while nothing has
\* been processed, otherwise the processed text followed by the buffer.
Contents(processed, buffer) ==
    IF processed # <<>>
    THEN <<"context", processed, buffer>>
    ELSE <<"plain", buffer>>

\* What a request carries as new text and as previously processed text.
NewTextOf(c) == c[Len(c)]

ProcessedOf(c) == IF c[1] = "context" THEN c[2] ELSE <<>>

\* A variant that assigns the chunk instead of appending it.
BufferReplacedByChunk(buffer, chunk) == chunk

\* add_text_chunk: "self.text_buffer += text_chunk".
BufferAfterAdd(buffer, chunk) == buffer \o chunk

\* A variant that assigns the buffer instead of appending it.
ProcessedOverwritten(processed, buffer) == buffer

\* _process_current_buffer on success: "self.processed_text +=
\* self.text_buffer", then the buffer is cleared.
ProcessedAfterSuccess(processed, buffer) == processed \o buffer

BufferAfterSuccess(buffer) == <<>>

\* A variant that clears the buffer in the exception handler too.
BufferDropped(buffer) == <<>>

\* _process_current_buffer on an exception of the oracle call or of the
\* reading of its response: the buffer is kept.
BufferAfterFailure(buffer) == buffer

\* execute_mcp_calls: the import of get_previous_steps, set_current_node and
\* go_back_steps from mcp_server raises ImportError (mcp_server defines none
\* of them); the handler prints a warning and returns, so no call runs.
\* An empty list returns before the import.  The dispatch loop below the
\* import is never entered.
execute_mcp_calls(function_calls) ==
    /\ function_calls = <<>> \/ ~ImportSucceeds
    /\ UNCHANGED storeVars

\* The model accepts a chunk while the text passed and the text held stay
\* within MaxText characters.
WithinBound(chunk) ==
    /\ Len(fed) + Len(chunk) <= MaxText
    /\ Len(processed_text) + Len(text_buffer) + Len(chunk) <= MaxText

\* IncrementalTextAnalyzer.add_text_chunk up to the await of the oracle
\* call: initialize (which may raise), append the chunk, build the request.
AddTextChunk(op, chunk) ==
    \E init_ok \in BOOLEAN :
        IF ~initialized /\ ~init_ok
        THEN /\ last_call' = [op |-> op, outcome |-> "init_failed",
                              chunk |-> chunk, prev |-> last_call.outcome,
                              raised |-> FALSE, value |-> <<>>]
             /\ UNCHANGED <<text_buffer, processed_text, initialized,
                            last_function_calls, pc, contents>>
        ELSE /\ initialized' = TRUE
             /\ text_buffer' = BufferAfterAdd(text_buffer, chunk)
             /\ contents' = Contents(processed_text, text_buffer')
             /\ pc' = "awaiting_oracle"
             /\ last_call' = [op |-> op, outcome |-> "pending",
                              chunk |-> chunk, prev |-> last_call.outcome,
                              raised |-> FALSE, value |-> <<>>]
             /\ UNCHANGED <<processed_text, last_function_calls>>

add_text_chunk(chunk) ==
    /\ program = "analyzer"
    /\ pc = "idle"
    /\ WithinBound(chunk)
    /\ fed' = fed \o chunk
    /\ AddTextChunk("add_text_chunk", chunk)
    /\ UNCHANGED <<program, storeVars, docVars, overlapVars>>

\* SyncIncrementalTextAnalyzer.add_text_chunk: inside a running event loop it
\* returns [] at once; otherwise it runs the asynchronous method.
sync_add_text_chunk(chunk) ==
    /\ program = "analyzer"
    /\ pc = "idle"
    /\ WithinBound(chunk)
    /\ fed' = fed \o chunk
    /\ \E loop_running \in BOOLEAN :
          IF loop_running
          THEN /\ last_call' = [op |-> "sync_add_text_chunk",
                                outcome |-> "loop_running", chunk |-> chunk,
                                prev |-> last_call.outcome,
                                raised |-> FALSE, value |-> <<>>]
               /\ UNCHANGED <<text_buffer, processed_text, initialized,
                              last_function_calls, pc, contents>>
          ELSE AddTextChunk("sync_add_text_chunk", chunk)
    /\ UNCHANGED <<program, storeVars, docVars, overlapVars>>

\* The oracle call returns and its response is read: the rest of
\* _process_current_buffer and of add_text_chunk.
oracle_success(function_calls) ==
    /\ program = "analyzer"
    /\ pc = "awaiting_oracle"
    /\ processed_text' = ProcessedAfterSuccess(processed_text, text_buffer)
    /\ text_buffer' = BufferAfterSuccess(text_buffer)
    /\ execute_mcp_calls(function_calls)
    /\ last_function_calls' = function_calls
    /\ pc' = "idle"
    /\ last_call' = [last_call EXCEPT !.outcome = "success",
                                      !.value = function_calls]
    /\ UNCHANGED <<program, docVars, overlapVars, initialized, contents, fed>>

\* A variant of the handler that answers a failure with the function calls
\* of the call before.
FailureResultPrevious == last_function_calls

\* What the exception handler of _process_current_buffer returns.
FailureResult == <<>>

\* The oracle call (or the reading of its response) raises:
\* _process_current_buffer returns [], which add_text_chunk passes to
\* execute_mcp_calls, stores and returns.
oracle_failure ==
    /\ program = "analyzer"
    /\ pc = "awaiting_oracle"
    /\ text_buffer' = BufferAfterFailure(text_buffer)
    /\ execute_mcp_calls(FailureResult)
    /\ last_function_calls' = FailureResult
    /\ pc' = "idle"
    /\ last_call' = [last_call EXCEPT !.outcome = "oracle_failed",
                                      !.value = FailureResult]
    /\ UNCHANGED <<program, docVars, overlapVars, processed_text, initialized, contents,
                   fed>>

\* A variant in which the cancellation reaches the task inside
\* execute_mcp_calls, after the first call of a batch has created its node.
cancel_after_first_call ==
    /\ program = "analyzer"
    /\ pc = "awaiting_oracle"
    /\ next_node_id <= MaxNodes
    /\ nodes' = Insert(nodes, next_node_id,
                       [parent_id |-> last_node_id, trace_id |-> None])
    /\ next_node_id' = next_node_id + 1
    /\ pc' = "idle"
    /\ last_call' = [last_call EXCEPT !.outcome = "cancelled",
                                      !.raised = TRUE]
    /\ UNCHANGED <<program, traces, next_trace_id, fk_enforced,
                   current_trace_id, last_node_id, last_store_op,
                   sessionVars, docVars, overlapVars, text_buffer, processed_text,
                   initialized, last_function_calls, contents, fed>>

\* The task running add_text_chunk is cancelled.  A task is cancelled where
\* it is suspended, and add_text_chunk suspends only in the oracle call
\* (initialize and execute_mcp_calls contain no await that suspends):
\* CancelledError is raised there, passes both "except Exception" handlers
\* and leaves add_text_chunk; the chunk stays in text_buffer.
cancel_add_text_chunk ==
    /\ program = "analyzer"
    /\ pc = "awaiting_oracle"
    /\ pc' = "idle"
    /\ last_call' = [last_call EXCEPT !.outcome = "cancelled",
                                      !.raised = TRUE]
    /\ UNCHANGED <<program, storeVars, docVars, overlapVars, text_buffer, processed_text,
                   initialized, last_function_calls, contents, fed>>

\* IncrementalTextAnalyzer.reset
reset ==
    /\ program = "analyzer"
    /\ pc = "idle"
    /\ text_buffer' = <<>>
    /\ processed_text' = <<>>
    /\ last_function_calls' = <<>>
    /\ fed' = <<>>
    /\ last_call' = [op |-> "reset", outcome |-> "reset", chunk |-> <<>>,
                     prev |-> last_call.outcome, raised |-> FALSE,
                     value |-> <<>>]
    /\ UNCHANGED <<program, storeVars, docVars, overlapVars, initialized, pc, contents>>

\* SyncIncrementalTextAnalyzer.reset: assigns text_buffer, processed_text
\* and last_function_calls on the wrapper, not on its async_analyzer.
sync_reset ==
    /\ program = "analyzer"
    /\ pc = "idle"
    /\ fed' = <<>>
    /\ last_call' = [op |-> "sync_reset", outcome |-> "reset",
                     chunk |-> <<>>, prev |-> last_call.outcome,
                     raised |-> FALSE, value |-> <<>>]
    /\ UNCHANGED <<program, storeVars, docVars, overlapVars, text_buffer, processed_text,
                   initialized, last_function_calls, pc, contents>>

\* ----------------------------------------------------------------------
\* Two add_text_chunk tasks on one analyzer
\* ----------------------------------------------------------------------
\* The tasks that call add_text_chunk on the same analyzer; the event loop
\* runs one of them at a time and switches where a task awaits the oracle.
Callers == {"first", "second"}

NoTask == [pc |-> "idle", new_text |-> <<>>]

\* The chunks of the calls, in the order of the calls: every call passes a
\* character no other call passes.
Alphabet == <<"a", "b", "c", "d", "e">>

\* add_text_chunk of one task up to the await of the oracle call: the chunk
\* is appended to the buffer shared by the tasks, and the request is built
\* from the buffer as it is now.
start_add_text_chunk(caller) ==
    /\ program = "overlap"
    /\ tasks[caller].pc = "idle"
    /\ Len(fed) < MaxText /\ Len(fed) < Len(Alphabet)
    /\ LET chunk == <<Alphabet[Len(fed) + 1]>>
       IN  /\ fed' = fed \o chunk
           /\ \E init_ok \in BOOLEAN :
                 IF ~initialized /\ ~init_ok
                 THEN UNCHANGED <<text_buffer, initialized, contents, tasks>>
                 ELSE /\ initialized' = TRUE
                      /\ text_buffer' = BufferAfterAdd(text_buffer, chunk)
                      /\ contents' = Contents(processed_text, text_buffer')
                      /\ tasks' = [tasks EXCEPT ![caller] =
                                      [pc |-> "awaiting_oracle",
                                       new_text |-> NewTextOf(contents')]]
    /\ UNCHANGED <<program, storeVars, docVars, processed_text,
                   last_function_calls, pc, last_call, successful>>

\* The oracle call of one task returns: the buffer as it is now, whatever
\* the request held, is moved to processed_text.
task_oracle_success(caller, function_calls) ==
    /\ program = "overlap"
    /\ tasks[caller].pc = "awaiting_oracle"
    /\ processed_text' = ProcessedAfterSuccess(processed_text, text_buffer)
    /\ text_buffer' = BufferAfterSuccess(text_buffer)
    /\ execute_mcp_calls(function_calls)
    /\ last_function_calls' = function_calls
    /\ successful' = Append(successful, tasks[caller].new_text)
    /\ tasks' = [tasks EXCEPT ![caller].pc = "idle"]
    /\ UNCHANGED <<program, docVars, initialized, pc, contents, fed,
                   last_call>>

\* The oracle call of one task raises.
task_oracle_failure(caller) ==
    /\ program = "overlap"
    /\ tasks[caller].pc = "awaiting_oracle"
    /\ text_buffer' = BufferAfterFailure(text_buffer)
    /\ execute_mcp_calls(FailureResult)
    /\ last_function_calls' = FailureResult
    /\ tasks' = [tasks EXCEPT ![caller].pc = "idle"]
    /\ UNCHANGED <<program, docVars, processed_text, initialized, pc,
                   contents, fed, last_call, successful>>

\* ======================================================================
\* Initial state and specifications
\* ======================================================================
\* initialized is False after IncrementalTextAnalyzer.__init__ and True after
\* SyncIncrementalTextAnalyzer.__init__, whose _safe_initialize ran.
Init ==
    /\ program \in Programs
    /\ traces = {}
    /\ nodes = << >>
    /\ next_trace_id = 1
    /\ next_node_id = 1
    /\ fk_enforced \in BOOLEAN
    /\ current_trace_id = None
    /\ last_node_id = None
    /\ last_store_op = [op |-> "init", ok |-> TRUE, id |-> None]
    /\ tool_calls = [session \in Sessions |-> NoCall]
    /\ created_for = << >>
    /\ node_count = 0
    /\ parent = [n \in {ROOT} |-> None]
    /\ children = [n \in {ROOT} |-> <<>>]
    /\ content = [n \in {ROOT} |-> RootContent]
    /\ current_node = ROOT
    /\ analysis = NotCalled
    /\ last_doc_op = [op |-> "init", node |-> ROOT, result |-> <<>>]
    /\ text_buffer = <<>>
    /\ processed_text = <<>>
    /\ initialized \in BOOLEAN
    /\ last_function_calls = <<>>
    /\ pc = "idle"
    /\ contents = <<"plain", <<>>>>
    /\ fed = <<>>
    /\ last_call = [op |-> "init", outcome |-> "none", chunk |-> <<>>,
                    prev |-> "none", raised |-> FALSE, value |-> <<>>]
    /\ tasks = [caller \in Callers |-> NoTask]
    /\ successful = <<>>

NextStore ==
    \/ log_step
    \/ mark_decision
    \/ log_tool_call
    \/ create_trace
    \/ \E t \in 1..MaxTraces, p \in {None} \cup (1..MaxNodes) :
          create_node(t, p)
    \/ \E t \in 1..MaxTraces : delete_trace(t)
    \/ controller_reset

NextCalls ==
    \/ \E function_call \in AgentCalls : _execute_mcp_call(function_call)
    \/ \E node_id \in 1..MaxNodes : explore_alternative_path(node_id)

NextController ==
    \/ log_step
    \/ mark_decision
    \/ log_tool_call
    \/ controller_reset
    \/ NextCalls

NextClients ==
    \/ \E session \in Sessions, op \in ToolNames : call_tool(session, op)
    \/ \E session \in Sessions : begin_tool(session)
    \/ \E session \in Sessions : end_tool(session)

NextBranch ==
    \E target_desc \in TargetDescriptions : branch_point(target_desc)

\* A script driving a ChainDocumenter call by call.
NextDoc ==
    \/ program = "documenter" /\ doc_create_node(StepContent)
    \/ program = "documenter" /\ \E target \in DocNodes : move_pointer(target)
    \/ program = "documenter" /\
          \E n \in (-1)..MaxViewN : call_view_last_n_nodes(n)
    \/ program = "documenter" /\ call_get_full_path_to_current
    \/ program = "documenter" /\ NextBranch

\* analyze_text working through the paragraphs of a text.
NextParser ==
    \/ program = "parser" /\ \E text \in NodeContents : doc_create_node(text)
    \/ program = "parser" /\ \E target \in DocNodes : move_pointer(target)
    \/ program = "parser" /\ NextBranch

NextAnalyzer ==
    \/ \E chunk \in Chunks : add_text_chunk(chunk)
    \/ \E chunk \in Chunks : sync_add_text_chunk(chunk)
    \/ \E function_calls \in Batches : oracle_success(function_calls)
    \/ oracle_failure
    \/ cancel_add_text_chunk
    \/ reset
    \/ sync_reset

NextText ==
    \/ analyze_text
    \/ first_pass_create
    \/ first_pass_end
    \/ second_pass_branch
    \/ after_branch_create
    \/ after_branch_end
    \/ analyze_text_return

NextOverlap ==
    \/ \E caller \in Callers : start_add_text_chunk(caller)
    \/ \E caller \in Callers, function_calls \in {<<>>, <<LogStepCall>>} :
          task_oracle_success(caller, function_calls)
    \/ \E caller \in Callers : task_oracle_failure(caller)

Next ==
    \/ NextStore
    \/ NextDoc
    \/ NextParser
    \/ NextAnalyzer
    \/ NextCalls
    \/ NextClients
    \/ NextOverlap
    \/ NextText

Spec == Init /\ [][Next]_vars

\* The programs that build a graph: the store and the documenter.
NextGraph == NextStore \/ NextDoc

SpecGraph == Init /\ [][NextGraph]_vars

SpecStore == Init /\ [][NextStore]_vars

SpecDoc == Init /\ [][NextDoc]_vars

SpecAnalyzer == Init /\ [][NextAnalyzer]_vars

SpecController == Init /\ [][NextController]_vars

SpecParser == Init /\ [][NextParser]_vars

SpecClients == Init /\ [][NextClients]_vars

SpecOverlap == Init /\ [][NextOverlap]_vars

SpecText == Init /\ [][NextText]_vars

\* The programs that append and navigate: the MCP tools with the controller,
\* and a documenter script that reads the last two steps only.
NextNavigate ==
    \/ NextController
    \/ program = "documenter" /\ doc_create_node(StepContent)
    \/ program = "documenter" /\ \E target \in DocNodes : move_pointer(target)
    \/ program = "documenter" /\ call_view_last_n_nodes(2)
    \/ program = "documenter" /\ NextBranch

SpecNavigate == Init /\ [][NextNavigate]_vars

\* A script that only creates nodes and moves the pointer.
NextChain ==
    \/ program = "documenter" /\ doc_create_node(StepContent)
    \/ program = "documenter" /\ \E target \in DocNodes : move_pointer(target)

SpecChain == Init /\ [][NextChain]_vars

\* ======================================================================
\* Properties
\* ======================================================================
AppendOps == {"log_step", "mark_decision", "log_tool_call"}

\* The latest store operation was a successful MCP append.
StoreAppended == last_store_op.op \in AppendOps /\ last_store_op.ok

\* The latest documenter operation created a node.
DocCreated == last_doc_op.op = "create_node"

\* ChainDocumenter.create_node attaches the new node under the node that was
\* current before the call and makes the new node current.
DocAppendAtCurrent ==
    DocCreated' =>
        /\ parent'[last_doc_op'.node] = current_node
        /\ current_node' = last_doc_op'.node

\* C1 (as stated): every successful log_step, mark_decision, log_tool_call
\* and documenter create_node gives the new node the parent that the current
\* position held immediately before the operation, and leaves the current
\* position on the new node.
C1_ParentIsPreviousCurrent ==
    [][/\ StoreAppended' =>
            /\ nodes'[last_store_op'.id].parent_id = last_node_id
            /\ last_node_id' = last_store_op'.id
       /\ DocAppendAtCurrent]_vars

\* C1 (amended): the parent of the new node is the current position held
\* immediately before the operation, except that an MCP append which has to
\* create a new active trace (none was remembered, or the remembered trace
\* was deleted) creates a root (null parent); in every case the current
\* position is the new node afterwards.
C1_ParentIsCurrentOfActiveTrace ==
    [][/\ StoreAppended' =>
            /\ nodes'[last_store_op'.id].parent_id =
                   (IF ReusesTrace THEN last_node_id ELSE None)
            /\ last_node_id' = last_store_op'.id
       /\ DocAppendAtCurrent]_vars

\* C1 witness: an MCP append has attached a node under a non-null current
\* position of a trace that already existed.
C1_Witness ==
    /\ StoreAppended
    /\ last_node_id = last_store_op.id
    /\ nodes[last_node_id].parent_id \in DOMAIN nodes

\* The graph of the branching scenario: R = node_1 under the root, D = node_2
\* under R, Z = node_3 under D, then the pointer moved to R and D2 = node_4
\* created; the current position is D2.
BranchGraph ==
    /\ program = "documenter"
    /\ node_count = 4
    /\ parent = [n \in 0..4 |->
                   IF n = 0 THEN None
                   ELSE IF n = 1 THEN ROOT
                   ELSE IF n = 2 THEN 1
                   ELSE IF n = 3 THEN 2
                   ELSE 1]
    /\ current_node = 4

\* C2: in the branching scenario the children of R are exactly [D, D2]; and
\* every create_node appends the new node after the existing children of
\* the node the pointer was on, every other children list (and the order of
\* the existing children) staying as it was.
C2_BranchAddsSiblingLast ==
    /\ [](BranchGraph => children[1] = <<2, 4>>)
    /\ [][DocCreated' =>
            /\ children'[current_node] =
                   Append(children[current_node], last_doc_op'.node)
            /\ \A n \in DocNodes \ {current_node} :
                   children'[n] = children[n]]_vars

\* C2 witness: D2 has just been created under R, which already had child D.
C2_Witness ==
    /\ BranchGraph
    /\ DocCreated
    /\ last_doc_op.node = 4

\* The latest documenter operation was view_last_n_nodes(5).
ViewedFive ==
    /\ last_doc_op.op = "view_last_n_nodes"
    /\ last_doc_op.node = 5

\* C3 (as stated): in the branching scenario previous_steps(5) with current
\* = D2 returns exactly the two-element sequence [R, D2].
C3_PreviousStepsIsRThenD2 ==
    (BranchGraph /\ ViewedFive) => last_doc_op.result = <<1, 4>>

\* C3 (amended): in the branching scenario view_last_n_nodes(5) with current
\* = D2 returns the three-element sequence [ROOT, R, D2]: the documenter's
\* own root node, then R, then D2, root-first and with no other entry.
C3_PreviousStepsIsRootRThenD2 ==
    (BranchGraph /\ ViewedFive) => last_doc_op.result = <<ROOT, 1, 4>>

\* C3 witness: view_last_n_nodes(5) has been called in the branching
\* scenario.
C3_Witness == BranchGraph /\ ViewedFive /\ Len(last_doc_op.result) = 3

\* The walk along parent_id from row n meets a row with null parent within
\* the given number of steps.
RECURSIVE StoreWalkEndsAtRoot(_, _)
StoreWalkEndsAtRoot(n, steps) ==
    IF n \notin DOMAIN nodes THEN FALSE
    ELSE IF nodes[n].parent_id = None THEN TRUE
    ELSE IF steps = 0 THEN FALSE
    ELSE StoreWalkEndsAtRoot(nodes[n].parent_id, steps - 1)

RECURSIVE DocWalkEndsAtRoot(_, _)
DocWalkEndsAtRoot(n, steps) ==
    IF parent[n] = None THEN TRUE
    ELSE IF steps = 0 THEN FALSE
    ELSE DocWalkEndsAtRoot(parent[n], steps - 1)

\* C4: forest invariant: from every node the walk along parent links reaches
\* a node with null parent in at most as many steps as there are nodes; no
\* cycle, not even a node that is its own parent, is reachable.
C4_Forest ==
    /\ \A n \in DOMAIN nodes :
           StoreWalkEndsAtRoot(n, Cardinality(DOMAIN nodes))
    /\ \A n \in DocNodes : DocWalkEndsAtRoot(n, node_count + 1)

\* C5: every node with a non-null parent_id has a parent that exists in the
\* store and belongs to the same trace.
C5_ParentExistsInSameTrace ==
    \A n \in DOMAIN nodes :
        nodes[n].parent_id # None =>
            /\ nodes[n].parent_id \in DOMAIN nodes
            /\ nodes[nodes[n].parent_id].trace_id = nodes[n].trace_id

\* C6: an explicit create_node whose trace does not exist, or whose non-null
\* parent_id is not a node of that trace, fails and adds no node: so a
\* create_node that added a node was given an existing trace and a parent
\* that was null or a node of that trace.
C6_InvalidCreateNodeRejected ==
    [][(last_store_op'.op = "create_node" /\ last_store_op'.ok) =>
          LET row == nodes'[last_store_op'.id]
          IN  /\ row.trace_id \in traces
              /\ row.parent_id # None =>
                     /\ row.parent_id \in DOMAIN nodes
                     /\ nodes[row.parent_id].trace_id = row.trace_id]_vars

\* C7: an add_text_chunk whose oracle call succeeds leaves processed_text
\* with its previous value as a prefix and text_buffer empty.
C7_ProcessedGrowsBufferEmpties ==
    [][last_call'.outcome = "success" =>
          /\ IsPrefix(processed_text, processed_text')
          /\ text_buffer' = <<>>]_vars

\* C7 witness: a second non-empty chunk has been processed successfully.
C7_Witness ==
    /\ last_call.outcome = "success"
    /\ last_call.chunk # <<>>
    /\ Len(processed_text) > Len(last_call.chunk)
    /\ text_buffer = <<>>

\* C8: when the oracle call fails, text_buffer after the call is what it was
\* before the call, and processed_text is unchanged.
C8_FailureKeepsBuffer ==
    [][last_call'.outcome = "oracle_failed" =>
          /\ text_buffer' = text_buffer
          /\ processed_text' = processed_text]_vars

\* C8 witness: an oracle call failed with text both processed and pending.
C8_Witness ==
    /\ last_call.outcome = "oracle_failed"
    /\ text_buffer # <<>>
    /\ processed_text # <<>>

\* C9: when an add_text_chunk that ended in an oracle failure is followed by
\* another add_text_chunk, the second request carries as new text the new
\* text of the first request followed by the second chunk, and the same
\* processed text.
C9_RetryResubmitsUnprocessed ==
    [][(last_call.outcome = "oracle_failed"
        /\ last_call'.outcome = "pending") =>
          /\ NewTextOf(contents') = NewTextOf(contents) \o last_call'.chunk
          /\ ProcessedOf(contents') = ProcessedOf(contents)]_vars

\* C9 witness: a call is in flight right after a failed one, with text left
\* over from the failed call and a non-empty second chunk.
C9_Witness ==
    /\ last_call.outcome = "pending"
    /\ last_call.prev = "oracle_failed"
    /\ last_call.chunk # <<>>
    /\ Len(NewTextOf(contents)) > Len(last_call.chunk)

\* C10: whenever no add_text_chunk is in flight, processed_text followed by
\* text_buffer is the concatenation of all chunks passed since the analyzer
\* was created or last reset.
C10_NoTextLost ==
    pc = "idle" => processed_text \o text_buffer = fed

\* ======================================================================
\* Batches of function calls (C11 - C16)
\* ======================================================================
\* A call whose name is one of the six tools and which carries every key
\* that tool requires.
WellFormed(call) ==
    /\ call.name \in DOMAIN RequiredArgs
    /\ RequiredArgs[call.name] \subseteq call.args

WellFormedAppend(call) == call.name \in AppendOps /\ WellFormed(call)

AppendCount(function_calls) ==
    Cardinality({i \in DOMAIN function_calls :
                    WellFormedAppend(function_calls[i])})

\* This step is the return of an add_text_chunk whose oracle call succeeded.
BatchReturned == pc = "awaiting_oracle" /\ last_call'.outcome = "success"

\* C11: when an add_text_chunk whose oracle call succeeded with a list of
\* well-formed calls returns, every log_step, mark_decision and log_tool_call
\* of the list has been applied exactly once: the nodes table holds one more
\* row per such call.
C11_EveryAppendApplied ==
    [][(/\ BatchReturned
        /\ \A i \in DOMAIN last_function_calls' :
              WellFormed(last_function_calls'[i]))
       => Cardinality(DOMAIN nodes') =
             Cardinality(DOMAIN nodes) + AppendCount(last_function_calls')]_vars

\* C12: when the returned list holds a call that is not well-formed, that
\* call alone is skipped: the nodes table still holds one more row per
\* well-formed log_step, mark_decision and log_tool_call of the list.
C12_OnlyTheBadCallSkipped ==
    [][(/\ BatchReturned
        /\ \E i \in DOMAIN last_function_calls' :
              ~WellFormed(last_function_calls'[i]))
       => /\ Cardinality(DOMAIN nodes') - Cardinality(DOMAIN nodes) =
                AppendCount(last_function_calls')
          /\ AppendCount(last_function_calls') > 0]_vars

NavigationOps == {"get_previous_steps", "set_current_node", "go_back_steps"}

\* The latest store operation was a single call handed to the controller.
CallHandled == last_store_op.op = "_execute_mcp_call"

\* C13: a log_step that runs adds exactly one row, of type LOGGING; a
\* mark_decision adds exactly one row, of type DECISION, whose
\* decision_outcome is the chosen option; a log_tool_call adds exactly one
\* row, of type TOOL_CALL, whose tool_name is the tool name; every other row
\* stays as it was.  A get_previous_steps, set_current_node or
\* go_back_steps call adds no row.
C13_NodeCountPerAction ==
    [][/\ StoreAppended' =>
            LET id == last_store_op'.id
                columns == last_store_op'.columns
            IN  /\ id \notin DOMAIN nodes
                /\ DOMAIN nodes' = (DOMAIN nodes) \cup {id}
                /\ \A n \in DOMAIN nodes : nodes'[n] = nodes[n]
                /\ last_store_op'.op = "log_step" =>
                      columns.type = "LOGGING"
                /\ last_store_op'.op = "mark_decision" =>
                      /\ columns.type = "DECISION"
                      /\ columns.decision_outcome = "chosen_option"
                /\ last_store_op'.op = "log_tool_call" =>
                      /\ columns.type = "TOOL_CALL"
                      /\ columns.tool_name = "tool_name"
       /\ (CallHandled' /\ last_store_op'.call.name \in NavigationOps) =>
            nodes' = nodes]_vars

\* A mark_decision has just added the second row of the table.
C13_Witness ==
    /\ StoreAppended
    /\ last_store_op.op = "mark_decision"
    /\ last_store_op.columns.decision_outcome = "chosen_option"
    /\ Cardinality(DOMAIN nodes) = 2

\* The ancestor chain of a stored node, root first, the node itself last.
RECURSIVE StoreChainLoop(_, _)
StoreChainLoop(path, n) ==
    IF n \in DOMAIN nodes /\ Len(path) <= Cardinality(DOMAIN nodes)
    THEN StoreChainLoop(<<n>> \o path, nodes[n].parent_id)
    ELSE path

StoreChain(n) == StoreChainLoop(<<>>, n)

Max(a, b) == IF a >= b THEN a ELSE b

\* The current position names a stored node.
HasCurrent == last_node_id \in DOMAIN nodes

\* C14: a go_back_steps call without num_steps is applied with num_steps = 1
\* (the current position moves to the parent of the current node), and a
\* get_previous_steps call without num_steps is applied, not skipped.
C14_DefaultsApplied ==
    [][/\ (/\ CallHandled'
           /\ last_store_op'.call = GoBackNoArgs
           /\ HasCurrent
           /\ nodes[last_node_id].parent_id # None)
          => /\ DefaultNumSteps["go_back_steps"] = 1
             /\ last_node_id' = nodes[last_node_id].parent_id
       /\ (CallHandled' /\ last_store_op'.call = GetPreviousNoArgs)
          => /\ DefaultNumSteps["get_previous_steps"] = 5
             /\ last_store_op'.ok]_vars

\* The node id belongs to the active trace.
InActiveTrace(node_id) ==
    /\ node_id \in DOMAIN nodes
    /\ nodes[node_id].trace_id = current_trace_id

\* C15: set_current with a node id outside the active trace reports an error
\* and leaves the current position and the graph unchanged; with a node id
\* of the active trace it sets the current position to exactly that node.
C15_SetCurrentValidated ==
    [][last_store_op'.op = "explore_alternative_path" =>
          LET node_id == last_store_op'.call.value
          IN  IF InActiveTrace(node_id)
              THEN last_store_op'.ok /\ last_node_id' = node_id
              ELSE /\ ~last_store_op'.ok
                   /\ last_node_id' = last_node_id
                   /\ nodes' = nodes]_vars

\* C16: go_back(k) moves the current position to the entry at index
\* max(0, L - 1 - k) of the root-first ancestor chain of length L of the
\* current node; go_back(0) changes nothing and a k beyond the depth stops
\* at the root.
C16_GoBackClamps ==
    [][(/\ CallHandled'
        /\ last_store_op'.call.name = "go_back_steps"
        /\ last_store_op'.call.value # None
        /\ HasCurrent)
       => LET chain == StoreChain(last_node_id)
              k == last_store_op'.call.value
          IN  last_node_id' = chain[Max(0, Len(chain) - 1 - k) + 1]]_vars

\* ======================================================================
\* Reading the path to the current node (C17, C18)
\* ======================================================================
Min(a, b) == IF a <= b THEN a ELSE b

\* The latest documenter operation was view_last_n_nodes.
Viewed == last_doc_op.op = "view_last_n_nodes"

\* The last m entries of a sequence.
Tail_m(seq, m) == SubSeq(seq, Len(seq) - m + 1, Len(seq))

\* C17: for every n and every current node, view_last_n_nodes(n) returns
\* exactly the final min(n, L) entries of the root-first ancestor chain of
\* the current node (L its length, the current node last), and the empty
\* sequence when n <= 0.
C17_LastMinNL ==
    Viewed =>
        LET n == last_doc_op.node
            chain == get_full_path_to_current
        IN  /\ chain[Len(chain)] = current_node
            /\ chain[1] = ROOT
            /\ \A i \in 2..Len(chain) : parent[chain[i]] = chain[i - 1]
            /\ last_doc_op.result =
                  IF n <= 0 THEN <<>>
                  ELSE Tail_m(chain, Min(n, Len(chain)))

\* A chain of four nodes was read with n = 2: the path is cut to two entries.
C17_Witness ==
    /\ Viewed
    /\ last_doc_op.node = 2
    /\ Len(get_full_path_to_current) = 4
    /\ Len(last_doc_op.result) = 2

\* The tree and the pointer of the documenter.
docGraph == <<node_count, parent, children, content, current_node>>

\* C18: view_last_n_nodes is a pure read: it leaves the current node and
\* every node unchanged, and a second call with the same n right after the
\* first returns the same sequence.
C18_PureRead ==
    [][Viewed' =>
          /\ UNCHANGED docGraph
          /\ (Viewed /\ last_doc_op.node = last_doc_op'.node) =>
                last_doc_op'.result = last_doc_op.result]_vars

\* A path of three nodes has been read while the current node is below the
\* root.
C18_Witness ==
    /\ Viewed
    /\ Len(last_doc_op.result) = 3
    /\ current_node # ROOT
    /\ last_doc_op.result[3] = current_node

\* ======================================================================
\* Resolving a branch target (C19, C20)
\* ======================================================================
\* The latest documenter operation resolved a target description.
Resolved == last_doc_op.op = "branch_point"

\* The nodes whose content contains the description, letter case ignored.
NodesContaining(target_desc) ==
    {n \in DocNodes : ContainsTable[content[n], target_desc]}

RECURSIVE Depth(_)
Depth(n) == IF parent[n] = None THEN 0 ELSE 1 + Depth(parent[n])

\* Breadth-first order from the root with the children of a node in their
\* order of creation: a precedes b.
RECURSIVE Precedes(_, _)
Precedes(a, b) ==
    \/ Depth(a) < Depth(b)
    \/ /\ Depth(a) = Depth(b)
       /\ a # b
       /\ IF parent[a] = parent[b] THEN a < b
          ELSE Precedes(parent[a], parent[b])

\* C19: whenever the description is a case-insensitive substring of the
\* content of at least one node, the node returned contains the
\* description, whatever the keyword scores of the other nodes are.
C19_ContainmentFirst ==
    (Resolved /\ NodesContaining(last_doc_op.result) # {}) =>
        last_doc_op.node \in NodesContaining(last_doc_op.result)

\* "research phase" was resolved to a node "Research phase notes" although
\* a node that does not contain the description comes earlier in
\* breadth-first order with a keyword score at least as high.
C19_Witness ==
    /\ Resolved
    /\ last_doc_op.result = W_research \o Sp \o W_phase
    /\ content[last_doc_op.node] = ResearchPhaseNotes
    /\ \E n \in DocNodes \ NodesContaining(last_doc_op.result) :
          /\ Precedes(n, last_doc_op.node)
          /\ KeywordScore(content[n], last_doc_op.result) >=
                KeywordScore(content[last_doc_op.node], last_doc_op.result)

\* C20: when several nodes contain the description, the node returned is
\* the one of them that comes first in breadth-first order from the root,
\* children taken in creation order.
C20_FirstInBreadthFirstOrder ==
    (Resolved /\ Cardinality(NodesContaining(last_doc_op.result)) >= 2) =>
        \A m \in NodesContaining(last_doc_op.result) \ {last_doc_op.node} :
            Precedes(last_doc_op.node, m)

\* Nodes 2 (below node 1) and 3 (below the root) both contain the
\* description; node 3, created later but nearer to the root, is returned.
C20_Witness ==
    /\ Resolved
    /\ node_count = 3
    /\ parent[2] = 1
    /\ parent[3] = ROOT
    /\ {2, 3} \subseteq NodesContaining(last_doc_op.result)
    /\ last_doc_op.node = 3

\* The nodes that share the most vocabulary keywords with the description.
SharedKeywords(n, target_desc) == ScoreTable[content[n], target_desc]

MostShared(target_desc) ==
    {n \in DocNodes :
        \A m \in DocNodes :
            SharedKeywords(m, target_desc) <= SharedKeywords(n, target_desc)}

\* C21: when no node contains the description and some node shares a
\* vocabulary keyword with it, the node returned shares the maximum number
\* of keywords, and it is the first of the nodes with that maximum in
\* breadth-first order.
C21_MostKeywordsFirstInOrder ==
    (/\ Resolved
     /\ NodesContaining(last_doc_op.result) = {}
     /\ \E n \in DocNodes : SharedKeywords(n, last_doc_op.result) > 0) =>
        /\ last_doc_op.node \in MostShared(last_doc_op.result)
        /\ \A m \in MostShared(last_doc_op.result) \ {last_doc_op.node} :
              Precedes(last_doc_op.node, m)

\* "implement approach research" is contained in no node; node 1 shares
\* one keyword with it, nodes 2 and 3 share two, and node 2 is returned.
C21_Witness ==
    /\ Resolved
    /\ last_doc_op.result = W_implement \o Sp \o W_approach \o Sp \o W_research
    /\ NodesContaining(last_doc_op.result) = {}
    /\ node_count = 3
    /\ SharedKeywords(1, last_doc_op.result) = 1
    /\ SharedKeywords(2, last_doc_op.result) = 2
    /\ SharedKeywords(3, last_doc_op.result) = 2
    /\ Precedes(1, 2) /\ Precedes(2, 3)
    /\ last_doc_op.node = 2

\* ======================================================================
\* The positional fallback of the resolver (C22, C23)
\* ======================================================================
\* The latest resolution found no node by containment and none by keyword.
FellBack ==
    /\ Resolved
    /\ NodesContaining(last_doc_op.result) = {}
    /\ \A n \in DocNodes : SharedKeywords(n, last_doc_op.result) = 0

\* The ancestor chain of a node, root first and the node last.
RECURSIVE ChainOf(_)
ChainOf(n) == IF parent[n] = None THEN <<n>> ELSE Append(ChainOf(parent[n]), n)

\* The node k parent steps above n.
RECURSIVE StepsUp(_, _)
StepsUp(n, k) == IF k = 0 THEN n ELSE StepsUp(parent[n], k - 1)

\* C22: when the resolver falls back and the ancestor chain of the current
\* node has at least four entries, it returns the ancestor exactly three
\* parent steps above the current node; on a chain of six that ends at the
\* current node this is the third node of the chain.
C22_ThreeStepsBack ==
    (FellBack /\ Len(ChainOf(last_doc_op.from)) >= 4) =>
        /\ last_doc_op.node = StepsUp(last_doc_op.from, 3)
        /\ Len(ChainOf(last_doc_op.from)) = 6 =>
              last_doc_op.node = ChainOf(last_doc_op.from)[3]

\* The resolver fell back from the last node of a linear chain of six (the
\* root and five nodes) and returned the third node of the chain.
C22_Witness ==
    /\ FellBack
    /\ node_count = 5
    /\ Len(ChainOf(last_doc_op.from)) = 6
    /\ last_doc_op.node = ChainOf(last_doc_op.from)[3]
    /\ last_doc_op.node = 2

\* C23: when the resolver falls back and the ancestor chain of the current
\* node has two or three entries, it returns the first entry after the
\* root; when the chain is the root alone, it returns the root.
C23_ShortChain ==
    /\ (FellBack /\ Len(ChainOf(last_doc_op.from)) \in {2, 3}) =>
          last_doc_op.node = ChainOf(last_doc_op.from)[2]
    /\ (FellBack /\ Len(ChainOf(last_doc_op.from)) = 1) =>
          last_doc_op.node = ROOT

\* The resolver fell back from a node two steps below the root and
\* returned that node's parent.
C23_Witness ==
    /\ FellBack
    /\ Len(ChainOf(last_doc_op.from)) = 3
    /\ last_doc_op.node = parent[last_doc_op.from]
    /\ last_doc_op.node # ROOT

\* ======================================================================
\* Deleting a trace (C24)
\* ======================================================================
\* C24: delete_trace on an existing trace removes the trace and exactly the
\* nodes of that trace, leaves every other trace and node as it was and
\* returns success; on a trace that does not exist it returns the not-found
\* signal and changes nothing.
C24_DeleteTraceFrame ==
    [][last_store_op'.op \in {"delete_trace", "delete_trace_raised"} =>
          LET t == last_store_op'.id
          IN  IF t \in traces
              THEN /\ last_store_op'.op = "delete_trace"
                   /\ last_store_op'.ok
                   /\ traces' = traces \ {t}
                   /\ nodes' = [n \in Survivors(t) |-> nodes[n]]
              ELSE /\ last_store_op'.op = "delete_trace"
                   /\ ~last_store_op'.ok
                   /\ UNCHANGED <<traces, nodes>>]_vars

\* ======================================================================
\* Publishing what is created (C25)
\* ======================================================================
\* The number of times an operation published an entity.
TimesPublished(e) ==
    Cardinality({i \in DOMAIN last_store_op.published :
                    last_store_op.published[i] = e})

\* C25: every operation that creates a trace or a node publishes each
\* entity it created exactly once.
C25_CreatedIsPublishedOnce ==
    "created" \in DOMAIN last_store_op =>
        \A e \in last_store_op.created : TimesPublished(e) = 1

\* ======================================================================
\* Two clients appending (C26, C27)
\* ======================================================================
\* C26: the position is kept per session: a node created for one client
\* never has a node created for the other client as its parent.
C26_ParentOfTheSameSession ==
    \A n \in DOMAIN created_for :
        (nodes[n].parent_id # None /\ nodes[n].parent_id \in DOMAIN created_for)
            => created_for[nodes[n].parent_id] = created_for[n]

\* A tool function of a client returned after creating a node.
Returned(session) ==
    /\ tool_calls[session].pc = "running"
    /\ tool_calls'[session].pc = "idle"
    /\ last_store_op'.ok

\* C27: whatever the order in which the calls of the clients are run, a
\* node is created under the node that is current when its tool function
\* writes it, no node was created under that current before, and the
\* pointer then names the new node.
C27_AppendsSerialized ==
    [][\A session \in Sessions :
          Returned(session) =>
              LET n == last_store_op'.id
              IN  /\ nodes'[n].parent_id = last_node_id
                  /\ \A m \in DOMAIN nodes :
                        nodes[m].parent_id # nodes'[n].parent_id
                  /\ last_node_id' = n]_vars

\* Node 2 was created for one client while a call of the other client, for
\* which node 1 had been created, was waiting to be run.
C27_Witness ==
    /\ program = "clients"
    /\ last_store_op.ok
    /\ last_store_op.id = 2
    /\ last_store_op.waiting = {created_for[1]}
    /\ created_for[2] # created_for[1]
    /\ nodes[2].parent_id = 1

\* ======================================================================
\* Cancellation and failures of add_text_chunk (C28 - C30)
\* ======================================================================
\* The graph and the position of the store.
storeGraph == <<traces, nodes, current_trace_id, last_node_id>>

\* This step is the cancellation of an add_text_chunk in flight.
Cancelled == pc = "awaiting_oracle" /\ last_call'.outcome = "cancelled"

\* C28: the cancellation of an add_text_chunk in flight leaves no part of
\* its action batch applied: the graph, the position and the stored
\* function calls are as they were before the cancellation.
C28_NoPartialBatch ==
    [][Cancelled =>
          /\ UNCHANGED storeGraph
          /\ last_function_calls' = last_function_calls]_vars

\* An add_text_chunk was cancelled while its chunk was with the oracle,
\* after an earlier call had returned a batch.
C28_Witness ==
    /\ last_call.outcome = "cancelled"
    /\ last_call.raised
    /\ last_call.chunk # <<>>
    /\ last_function_calls # <<>>

\* C29: when the oracle adapter fails to initialise, add_text_chunk raises
\* to its caller instead of returning a list.
C29_InitFailureSurfaced ==
    last_call.outcome = "init_failed" => last_call.raised

\* This step is the return of an add_text_chunk whose oracle call failed.
OracleFailed == pc = "awaiting_oracle" /\ last_call'.outcome = "oracle_failed"

StoreCreated ==
    /\ last_store_op.ok
    /\ last_store_op.op \in AppendOps \cup {"create_node"}

\* C31: every creation of a node makes the new node the current position.
C31_CreationAdvancesPosition ==
    /\ StoreCreated => last_node_id = last_store_op.id
    /\ DocCreated => current_node = last_doc_op.node

\* The latest documenter operation moved or read the pointer.
DocNavigated ==
    last_doc_op.op \in {"move_pointer", "view_last_n_nodes",
                        "get_full_path_to_current", "branch_point"}

\* C32: existing nodes are immutable.  Every append and every navigation
\* call leaves each node that existed before with its identifier, trace,
\* parent and content; a navigation call of the documenter changes nothing
\* of the tree, and a navigation call handed to the controller changes no
\* row.
C32_ExistingNodesImmutable ==
    [][/\ \A n \in DOMAIN nodes :
             n \in DOMAIN nodes' /\ nodes'[n] = nodes[n]
       /\ \A n \in DocNodes :
             /\ n \in DOMAIN parent'
             /\ parent'[n] = parent[n]
             /\ content'[n] = content[n]
       /\ DocNavigated' => UNCHANGED <<node_count, parent, children, content>>
       /\ CallHandled' => UNCHANGED <<traces, nodes>>]_vars

\* The documenter went back to node 1 and created node 3 there, next to
\* node 2.
C32_Witness ==
    /\ DocCreated
    /\ last_doc_op.node = 3
    /\ parent[3] = 1
    /\ parent[2] = 1
    /\ parent[1] = ROOT

\* ======================================================================
\* Resetting through the synchronous wrapper (C33)
\* ======================================================================
\* C33: after reset() on the synchronous wrapper the processed text and the
\* pending buffer of the wrapped analyzer are empty.
C33_SyncResetClears ==
    last_call.op = "sync_reset" =>
        /\ processed_text = <<>>
        /\ text_buffer = <<>>

\* ======================================================================
\* Committing text and applying its actions (C34)
\* ======================================================================
\* C34: whenever a returning add_text_chunk has moved text from the buffer
\* to processed_text, the well-formed appends the oracle returned for that
\* text have been applied: the nodes table holds one more row per such call.
C34_CommittedOnlyAfterApplied ==
    [][(BatchReturned /\ processed_text' # processed_text) =>
          Cardinality(DOMAIN nodes') =
             Cardinality(DOMAIN nodes) + AppendCount(last_function_calls')]_vars

\* The successful oracle calls whose new text held the character.
SuccessfulCallsWith(character) ==
    {k \in DOMAIN successful : In(<<character>>, successful[k])}

\* C35: with two add_text_chunk calls on one analyzer in flight at once,
\* every chunk in processed_text was part of the new text of exactly one
\* successful oracle call.
C35_EachChunkInOneSuccessfulCall ==
    \A i \in DOMAIN processed_text :
        Cardinality(SuccessfulCallsWith(processed_text[i])) = 1

\* The node the current position names has been deleted; appends put the
\* position on nodes of the active trace, and nodes are deleted only with
\* their trace.
PositionDeleted == last_node_id # None /\ last_node_id \notin DOMAIN nodes

\* The trace the MCP server remembered has been deleted.
ActiveTraceDeleted ==
    /\ current_trace_id # None
    /\ current_trace_id \notin traces \/ PositionDeleted

\* C36: the first append creates a trace and a root node; a later append
\* attaches to the same trace while it exists; once the active trace has been
\* deleted, the next append creates a new trace and a root node of it,
\* whatever identifiers the store hands out again.
C36_ActiveTraceLifecycle ==
    [][StoreAppended' =>
          LET new == nodes'[last_store_op'.id]
              trace_created ==
                  Entity("trace", current_trace_id') \in last_store_op'.created
          IN  /\ current_trace_id = None =>
                    /\ trace_created
                    /\ new.parent_id = None
                    /\ new.trace_id = current_trace_id'
              /\ (current_trace_id \in traces /\ ~ActiveTraceDeleted) =>
                    /\ current_trace_id' = current_trace_id
                    /\ new.trace_id = current_trace_id
              /\ ActiveTraceDeleted =>
                    /\ trace_created
                    /\ new.parent_id = None
                    /\ new.trace_id = current_trace_id']_vars

\* The nodes of the documenter's graph: those _get_all_nodes finds from the
\* root.
GraphNodes == {_get_all_nodes[i] : i \in DOMAIN _get_all_nodes}

Analyzed == analysis.pc = "done"

\* The non-empty paragraphs of the text analyze_text was given.
NonEmptyParagraphs == SelectSeq(analysis.text, LAMBDA p : p # Blank)

\* The indices of the paragraphs that are no branch points.
StepParagraphs ==
    {i \in DOMAIN NonEmptyParagraphs : ~NonEmptyParagraphs[i].branch}

\* The node of a step paragraph: nodes are numbered as they are created.
NodeOf(i) == Cardinality({j \in StepParagraphs : j <= i})

\* The nodes the resolver returned for the branch point at index i.
ResolvedFor(i) ==
    {analysis.all_executed_actions[k].node_id :
        k \in {k \in DOMAIN analysis.all_executed_actions :
                  /\ analysis.all_executed_actions[k].para = i
                  /\ analysis.all_executed_actions[k].name =
                         "move_pointer_to_node"}}

IsChildOf(node, p) ==
    /\ parent[node] = p
    /\ Cardinality({k \in DOMAIN children[p] : children[p][k] = node}) = 1

\* C38: analyze_text on a fresh documenter creates one node for every
\* non-empty paragraph that is no branch point and none for a branch point;
\* the first paragraph is a child of the root, the first paragraph after a
\* branch point is a child of the node the resolver returned for it, and
\* every other paragraph is a child of the node of the paragraph before it.
C38_OneNodePerStepParagraph ==
    Analyzed =>
        /\ node_count = Cardinality(StepParagraphs)
        /\ \A i \in StepParagraphs :
              /\ content[NodeOf(i)] = NonEmptyParagraphs[i].text
              /\ IF i = 1 THEN IsChildOf(NodeOf(i), ROOT)
                 ELSE IF NonEmptyParagraphs[i - 1].branch
                 THEN /\ ResolvedFor(i - 1) # {}
                      /\ \A p \in ResolvedFor(i - 1) : IsChildOf(NodeOf(i), p)
                 ELSE IsChildOf(NodeOf(i), NodeOf(i - 1))

\* C38 witness: a text of two steps, a branch point resolved to the node of
\* the first step, and a third step, which is now the second child of that
\* node.
C38_Witness ==
    /\ Analyzed
    /\ Len(analysis.text) = 4
    /\ node_count = 3
    /\ children[1] = <<2, 3>>
    /\ analysis.text[3].branch

\* How often a node stands in the children list of another.
TimesChildOf(c, p) ==
    Cardinality({k \in DOMAIN children[p] : children[p][k] = c})

\* C39: in the documenter, after any sequence of create_node and
\* move_pointer calls, a node stands in the children list of p once exactly
\* when its parent is p and in no list more than once; every node but the
\* root has a parent in the graph and the root has none; every node is
\* reached from the root; current_node is a node of the graph; node_count
\* is the number of the nodes below the root.
C39_ChildrenAgreeWithParents ==
    /\ DOMAIN parent = DocNodes /\ DOMAIN children = DocNodes
    /\ \A p \in DocNodes, c \in DocNodes :
          /\ TimesChildOf(c, p) <= 1
          /\ TimesChildOf(c, p) = 1 <=> parent[c] = p
    /\ parent[ROOT] = None
    /\ \A c \in DocNodes \ {ROOT} : parent[c] \in DocNodes
    /\ GraphNodes = DocNodes
    /\ Len(_get_all_nodes) = node_count + 1
    /\ current_node \in GraphNodes
    /\ node_count = Cardinality(GraphNodes \ {ROOT})

\* C39 witness: the pointer was moved back to a node that had a child, and
\* a second child has been created under it.
C39_Witness ==
    /\ DocCreated
    /\ node_count >= 3
    /\ parent[node_count] # node_count - 1
    /\ Len(children[parent[node_count]]) = 2

====
